---- MODULE Spec2Model ----
(***************************************************************************)
(* Model of the tabular block-composition engine of merlin_models/tf       *)
(* (src/merlin_models/tf/tabular.py): FilterFeatures, ConcatFeatures,      *)
(* StackFeatures, AsTabular, TabularLayer.__call__ and MergeTabular.       *)
(*                                                                         *)
(* A bundle is a Python dict: a function from a set of keys to tensors.    *)
(* Dicts are mutable objects, so the model keeps a small heap of the three *)
(* dict objects one call can touch: the mapping the caller passed in       *)
(* ("caller"), the dict a pre-filter builds ("filtered") and the dict the  *)
(* wrapped transformation builds ("fresh").  A tensor is an opaque value   *)
(* <<producer, key>>.                                                      *)
(***************************************************************************)
EXTENDS Integers, Sequences, FiniteSets, TLC

VARIABLES
    op,        \* the operation in progress: "idle", "Filter", "AsTabular", "Agg", "Tabular"
    pc,        \* the position inside the operation
    cfg,       \* the block's configuration and the call's arguments
    B0,        \* what the caller's input held when it was passed in
    heap,      \* the dict objects: caller, filtered, fresh
    inputs,    \* the local `inputs` of the call (a reference or a bare tensor)
    outputs,   \* the local `outputs` of the call
    post_op,   \* the local `post_op` of TabularLayer.__call__
    mi,        \* index of the next merge_with entry
    received,  \* log: what every sub-block invoked so far was given and returned
    result,    \* what the call returned (or the error it raised)
    inferred   \* what compute_output_shape returned (or the error it raised)

vars == <<op, pc, cfg, B0, heap, inputs, outputs, post_op, mi, received, result, inferred>>

-----------------------------------------------------------------------------
(* Universe of inputs *)

Keys == {"x", "y"}

\* The tensors a caller passes in.
InTensors == {<<"in", k>> : k \in Keys}

\* dict(): the empty mapping.
EmptyBundle == [k \in {} |-> <<"in", "x">>]

\* The mappings a caller passes in.
CallerBundles == UNION {[S -> InTensors] : S \in SUBSET Keys}

ColumnSets == SUBSET Keys

\* A single bare tensor (an input that is not a mapping).
BareTensor == [kind |-> "tensor", ref |-> "none"]

Ref(r) == [kind |-> "bundle", ref |-> r]

NoValue == [kind |-> "none", ref |-> "none"]

Fail(e) == [kind |-> "fail", err |-> e]

isinstance_dict(v) == v.kind = "bundle"

ShapeOf(dims) == [kind |-> "shape", dims |-> dims, err |-> ""]

ShapeError(e) == [kind |-> "fail", dims |-> <<>>, err |-> e]

NoShape == [kind |-> "none", dims |-> <<>>, err |-> ""]

\* A tuple returned as a shape whose last component is a shape object, not a
\* dimension; dims holds the components before it.
ShapeWithShapeInside(dims) == [kind |-> "shape", dims |-> dims, err |-> "TensorShape"]

-----------------------------------------------------------------------------
(* dict operations *)

\* The comprehension without its condition.
Restrict_unconditional(b, columns) == b

\* {k: v for k, v in b.items() if k in columns}
Restrict(b, columns) == [k \in (DOMAIN b) \cap columns |-> b[k]]

\* for key in keys: b.pop(key)
PopKeys(b, keys) == [k \in (DOMAIN b) \ keys |-> b[k]]

\* An update that keeps the entry already there.
Update_keepFirst(a, b) == [k \in (DOMAIN a) \cup (DOMAIN b) |-> IF k \in DOMAIN a THEN a[k] ELSE b[k]]

\* a.update(b)
Update(a, b) == [k \in (DOMAIN a) \cup (DOMAIN b) |-> IF k \in DOMAIN b THEN b[k] ELSE a[k]]

-----------------------------------------------------------------------------
(* FilterFeatures *)

FilterBlock(columns, pop) == [kind |-> "filter", name |-> "F", out |-> EmptyBundle,
                              columns |-> columns, pop |-> pop]

\* FilterFeatures.call without the `if self.pop` branch.
FilterFeatures_call_neverPops(b, columns, pop) == [outputs |-> Restrict(b, columns), inputs |-> b]

\* FilterFeatures.call on a dict holding b: the dict returned and what the
\* argument holds afterwards.
FilterFeatures_call(b, columns, pop) ==
    LET out == Restrict(b, columns)
    IN  [outputs |-> out,
         inputs  |-> IF pop THEN PopKeys(b, DOMAIN out) ELSE b]

-----------------------------------------------------------------------------
(* AsTabular *)

\* AsTabular.call: {self.output_name: inputs}, whatever inputs is.
AsTabular_call(output_name, v) == [kind |-> "named", name |-> output_name, value |-> v]

-----------------------------------------------------------------------------
(* Sub-blocks: what Merge wraps and what merge_with lists *)

\* A block that builds its own tensors whatever it is given ("blockA produces {x: t1}").
ConstBlock(name, keys) == [kind |-> "const", name |-> name,
                           out |-> [k \in keys |-> <<name, k>>],
                           columns |-> {}, pop |-> FALSE]

\* A mapping passed in merge_with directly (not callable).
ValueBlock(name, keys) == [kind |-> "value", name |-> name,
                           out |-> [k \in keys |-> <<name, k>>],
                           columns |-> {}, pop |-> FALSE]

\* A block whose call returns the object it was given (keras Layer.call).
IdentityBlock == [kind |-> "identity", name |-> "I", out |-> EmptyBundle,
                  columns |-> {}, pop |-> FALSE]

NoBlock == [kind |-> "none", name |-> "none", out |-> EmptyBundle,
            columns |-> {}, pop |-> FALSE]

blockA == ConstBlock("A", {"x"})

blockB == ConstBlock("B", {"x", "y"})

callable(blk) == blk.kind # "value"

\* layer(inputs) for a sub-block: the heap afterwards and what it returned.
ApplyBlock(blk, h, v) ==
    CASE blk.kind \in {"const", "value"} ->
            [heap |-> h, kind |-> "bundle", ret |-> blk.out]
      [] blk.kind = "filter" ->
            IF isinstance_dict(v)
            THEN LET r == FilterFeatures_call(h[v.ref], blk.columns, blk.pop)
                 IN  [heap |-> [h EXCEPT ![v.ref] = r.inputs], kind |-> "bundle", ret |-> r.outputs]
            ELSE [heap |-> h, kind |-> "fail", ret |-> EmptyBundle]
      [] OTHER ->
            IF isinstance_dict(v)
            THEN [heap |-> h, kind |-> "bundle", ret |-> h[v.ref]]
            ELSE [heap |-> h, kind |-> "tensor", ret |-> EmptyBundle]

\* One line of the log of sub-block invocations.
Invocation(blk, h, v, a) ==
    [block |-> blk, dict |-> isinstance_dict(v),
     given |-> IF isinstance_dict(v) THEN h[v.ref] ELSE EmptyBundle,
     ret   |-> a.ret]

-----------------------------------------------------------------------------
(* MergeTabular *)

RECURSIVE MergeLoop(_, _, _, _, _, _)
\* for layer in self.to_merge: outputs.update(layer(inputs))
MergeLoop(to_merge, i, h, v, out, log) ==
    IF i > Len(to_merge)
    THEN [heap |-> h, outputs |-> out, received |-> log]
    ELSE LET a == ApplyBlock(to_merge[i], h, v)
         IN  MergeLoop(to_merge, i + 1, a.heap, v, Update(out, a.ret),
                       Append(log, Invocation(to_merge[i], h, v, a)))

\* MergeTabular.call: the assertion, then the loop over a dict of its own.
MergeTabular_call(to_merge, h, v) ==
    IF isinstance_dict(v)
    THEN [ok |-> TRUE] @@ MergeLoop(to_merge, 1, h, v, EmptyBundle, <<>>)
    ELSE [ok |-> FALSE, heap |-> h, outputs |-> EmptyBundle, received |-> <<>>]

-----------------------------------------------------------------------------
(* TabularLayer *)

\* TabularLayer.set_aggregation
set_aggregation(aggregation) ==
    IF aggregation = "concat" THEN "concat"
    ELSE IF aggregation = "stack" THEN "stack"
    ELSE "none"

\* The two flags tested in the other order.
ResolvePostOp_concatLast(aggregation, concat_outputs, stack_outputs) ==
    IF concat_outputs THEN "concat" ELSE IF stack_outputs THEN "stack" ELSE aggregation

\* TabularLayer.__call__, the resolution of post_op: each `if` overwrites the
\* one before it.
ResolvePostOp(aggregation, concat_outputs, stack_outputs) ==
    LET p0 == aggregation
        p1 == IF concat_outputs THEN "concat" ELSE p0
        p2 == IF stack_outputs THEN "stack" ELSE p1
    IN  p2

\* if filter_columns: pre = FilterFeatures(filter_columns)
EffectivePre(pre, filter_columns) ==
    IF filter_columns # {} THEN FilterBlock(filter_columns, FALSE) ELSE pre

\* if not isinstance(merge_with, list): merge_with = [merge_with]
MergeWithList(merge_with) == merge_with.items

\* post_op(outputs): the aggregator applied to what outputs holds.
Aggregate(by, h, v) ==
    [kind |-> "agg", by |-> by, dict |-> isinstance_dict(v),
     of |-> IF isinstance_dict(v) THEN h[v.ref] ELSE EmptyBundle]

-----------------------------------------------------------------------------
(* Direct calls *)

NewHeap(b) == [caller |-> b, filtered |-> EmptyBundle, fresh |-> EmptyBundle]

CallerInputs == {[v |-> Ref("caller"), b |-> b] : b \in CallerBundles}
                    \cup {[v |-> BareTensor, b |-> EmptyBundle]}

Init ==
    /\ op = "idle"
    /\ pc = "idle"
    /\ cfg = [none |-> TRUE]
    /\ B0 = EmptyBundle
    /\ heap = NewHeap(EmptyBundle)
    /\ inputs = NoValue
    /\ outputs = NoValue
    /\ post_op = "none"
    /\ mi = 1
    /\ received = <<>>
    /\ result = NoValue
    /\ inferred = NoShape

\* Filter(columns, pop)(inputs)
FilterCall ==
    /\ pc = "idle"
    /\ \E i \in CallerInputs, columns \in ColumnSets, pop \in BOOLEAN :
          /\ cfg' = [columns |-> columns, pop |-> pop]
          /\ inputs' = i.v
          /\ B0' = i.b
          /\ IF isinstance_dict(i.v)
             THEN LET r == FilterFeatures_call(i.b, columns, pop)
                  IN  /\ heap' = [NewHeap(r.inputs) EXCEPT !.filtered = r.outputs]
                      /\ result' = Ref("filtered")
             ELSE /\ heap' = NewHeap(i.b)
                  /\ result' = Fail("AssertionError")
    /\ op' = "Filter"
    /\ pc' = "done"
    /\ UNCHANGED <<outputs, post_op, mi, received, inferred>>

\* AsTabular(output_name)(inputs)
AsTabularCall ==
    /\ pc = "idle"
    /\ \E i \in CallerInputs, output_name \in {"user", "item"} :
          /\ cfg' = [output_name |-> output_name]
          /\ inputs' = i.v
          /\ B0' = i.b
          /\ heap' = NewHeap(i.b)
          /\ result' = AsTabular_call(output_name, i.v)
    /\ op' = "AsTabular"
    /\ pc' = "done"
    /\ UNCHANGED <<outputs, post_op, mi, received, inferred>>

\* AsTabular(output_name)(Filter(columns)(inputs)): the filter's result is the
\* argument of AsTabular.call.
FilterAsTabularCall ==
    /\ pc = "idle"
    /\ \E i \in CallerInputs, columns \in ColumnSets, output_name \in {"user", "item"} :
          /\ cfg' = [columns |-> columns, pop |-> FALSE, output_name |-> output_name]
          /\ inputs' = i.v
          /\ B0' = i.b
          /\ IF isinstance_dict(i.v)
             THEN LET r == FilterFeatures_call(i.b, columns, FALSE)
                  IN  /\ heap' = [NewHeap(r.inputs) EXCEPT !.filtered = r.outputs]
                      /\ result' = AsTabular_call(output_name, Ref("filtered"))
             ELSE /\ heap' = NewHeap(i.b)
                  /\ result' = Fail("AssertionError")
    /\ op' = "FilterAsTabular"
    /\ pc' = "done"
    /\ UNCHANGED <<outputs, post_op, mi, received, inferred>>

-----------------------------------------------------------------------------
(* TabularLayer.__call__, step by step *)

MaxBlocks == 2

\* All sequences over S of at most n elements.
SeqsUpTo(S, n) == UNION {[1..k -> S] : k \in 0..n}

\* What Merge(...) may wrap.
ToMergeSet == {blockA, blockB, IdentityBlock, FilterBlock({"y"}, TRUE)}

\* What merge_with may list: blocks, or a mapping given as it is.
MergeWithSet == ToMergeSet \cup {ValueBlock("V", {"y"})}

\* merge_with: None (the empty list), one block, or a list.
MergeWithArgs ==
    {[list |-> TRUE, items |-> l] : l \in SeqsUpTo(MergeWithSet, MaxBlocks)}
        \cup {[list |-> FALSE, items |-> <<b>>] : b \in MergeWithSet}

NoMergeWith == [list |-> TRUE, items |-> <<>>]

AggregationArgs == {"none", "concat", "stack"}

PreArgs == {NoBlock, FilterBlock({"x"}, FALSE), FilterBlock({"x"}, TRUE)}

FilterColumnsArgs == {{}, {"y"}}

\* The inputs a TabularLayer is called on.
TabularInputs == {[v |-> Ref("caller"), b |-> [k \in S |-> <<"in", k>>]] : S \in SUBSET Keys}
                     \cup {[v |-> BareTensor, b |-> EmptyBundle]}

\* The block (TabularLayer itself, whose call returns its input, or a
\* MergeTabular) and the arguments of one call.
TabularShapes ==
    {[wrapped |-> "identity", to_merge |-> <<>>, merge_with |-> m] : m \in MergeWithArgs}
        \cup {[wrapped |-> "merge", to_merge |-> l, merge_with |-> NoMergeWith] :
                 l \in SeqsUpTo(ToMergeSet, MaxBlocks)}

\* block(inputs, pre=..., merge_with=..., stack_outputs=..., concat_outputs=..., filter_columns=...)
CallBegin ==
    /\ pc = "idle"
    /\ \E i \in TabularInputs, aggregation \in AggregationArgs,
          concat_outputs \in BOOLEAN, stack_outputs \in BOOLEAN,
          pre \in PreArgs, filter_columns \in FilterColumnsArgs, sh \in TabularShapes :
          /\ cfg' = [aggregation |-> set_aggregation(aggregation),
                     concat_outputs |-> concat_outputs, stack_outputs |-> stack_outputs,
                     pre |-> pre, filter_columns |-> filter_columns,
                     wrapped |-> sh.wrapped, to_merge |-> sh.to_merge,
                     merge_with |-> sh.merge_with]
          /\ inputs' = i.v
          /\ B0' = i.b
          /\ heap' = NewHeap(i.b)
    /\ op' = "Tabular"
    /\ pc' = "resolve"
    /\ UNCHANGED <<outputs, post_op, mi, received, result, inferred>>

\* lines 132-136
ResolveStep ==
    /\ pc = "resolve"
    /\ post_op' = ResolvePostOp(cfg.aggregation, cfg.concat_outputs, cfg.stack_outputs)
    /\ pc' = "pre"
    /\ UNCHANGED <<op, cfg, B0, heap, inputs, outputs, mi, received, result, inferred>>

\* lines 137-140
PreStep ==
    /\ pc = "pre"
    /\ LET pre == EffectivePre(cfg.pre, cfg.filter_columns)
       IN  IF pre.kind = "none"
           THEN /\ pc' = "call"
                /\ UNCHANGED <<heap, inputs, result>>
           ELSE IF isinstance_dict(inputs)
           THEN LET r == FilterFeatures_call(heap[inputs.ref], pre.columns, pre.pop)
                IN  /\ heap' = [heap EXCEPT ![inputs.ref] = r.inputs, !.filtered = r.outputs]
                    /\ inputs' = Ref("filtered")
                    /\ pc' = "call"
                    /\ UNCHANGED result
           ELSE /\ result' = Fail("AssertionError")
                /\ pc' = "done"
                /\ UNCHANGED <<heap, inputs>>
    /\ UNCHANGED <<op, cfg, B0, outputs, post_op, mi, received, inferred>>

\* line 141: outputs = super().__call__(inputs, ...)
CallStep ==
    /\ pc = "call"
    /\ IF cfg.wrapped = "identity"
       THEN /\ outputs' = inputs
            /\ pc' = "merge"
            /\ UNCHANGED <<heap, received, result>>
       ELSE LET m == MergeTabular_call(cfg.to_merge, heap, inputs)
            IN  IF m.ok
                THEN /\ heap' = [m.heap EXCEPT !.fresh = m.outputs]
                     /\ outputs' = Ref("fresh")
                     /\ received' = m.received
                     /\ pc' = "merge"
                     /\ UNCHANGED result
                ELSE /\ result' = Fail("AssertionError")
                     /\ pc' = "done"
                     /\ UNCHANGED <<heap, outputs, received>>
    /\ UNCHANGED <<op, cfg, B0, inputs, post_op, mi, inferred>>

\* lines 143-152, one turn of the loop
MergeStep ==
    /\ pc = "merge"
    /\ mi <= Len(MergeWithList(cfg.merge_with))
    /\ LET blk == MergeWithList(cfg.merge_with)[mi]
           a   == ApplyBlock(blk, heap, inputs)
       IN  /\ received' = Append(received, Invocation(blk, heap, inputs, a))
           /\ IF a.kind = "fail"
              THEN /\ result' = Fail("AssertionError")
                   /\ pc' = "done"
                   /\ UNCHANGED <<heap, mi>>
              ELSE IF ~isinstance_dict(outputs) \/ a.kind # "bundle"
              THEN /\ result' = Fail("AttributeError")
                   /\ pc' = "done"
                   /\ heap' = a.heap
                   /\ UNCHANGED mi
              ELSE /\ heap' = [a.heap EXCEPT ![outputs.ref] = Update(a.heap[outputs.ref], a.ret)]
                   /\ mi' = mi + 1
                   /\ UNCHANGED <<pc, result>>
    /\ UNCHANGED <<op, cfg, B0, inputs, outputs, post_op, inferred>>

\* lines 154-157
PostStep ==
    /\ pc = "merge"
    /\ mi > Len(MergeWithList(cfg.merge_with))
    /\ result' = IF post_op # "none" THEN Aggregate(post_op, heap, outputs) ELSE outputs
    /\ pc' = "done"
    /\ UNCHANGED <<op, cfg, B0, heap, inputs, outputs, post_op, mi, received, inferred>>

-----------------------------------------------------------------------------
(* TabularLayer.from_column_group *)

\* The columns of a schema, each with the tags it carries.
SchemaColumns == {[name |-> "x", tags |-> {"user"}],
                  [name |-> "y", tags |-> {"item"}],
                  [name |-> "z", tags |-> {"user", "item"}]}

ColumnGroups == SUBSET SchemaColumns

\* The `tags` argument; {} stands for None and for an empty list.
TagsArgs == {{}, {"user"}, {"item"}, {"context"}}

TagsToFilterArgs == {{}, {"item"}}

None == [kind |-> "None", ref |-> "none"]

\* column_group.get_tagged(tags, tags_to_filter=tags_to_filter): the columns
\* carrying one of the tags and none of the tags to filter.
get_tagged(column_group, tags, tags_to_filter) ==
    {c \in column_group : c.tags \cap tags # {} /\ c.tags \cap tags_to_filter = {}}

\* cls(**kwargs)
NewTabularLayer(aggregation) == [cls |-> "TabularLayer", wrapped |-> "identity",
                                 aggregation |-> set_aggregation(aggregation)]

\* right_shift_layer(self, other), that is other >> self: the flat sequence of
\* the two, applied in turn.
right_shift_layer(self, other) == [kind |-> "block", ref |-> "none", layers |-> <<other, self>>]

\* from_features: features >> cls(**kwargs)
from_features(features, aggregation) == right_shift_layer(NewTabularLayer(aggregation), features)

\* from_column_group going on to from_features whatever columns are left.
from_column_group_noEmptyCheck(column_group, tags, tags_to_filter) ==
    LET cg == IF tags # {} THEN get_tagged(column_group, tags, tags_to_filter)
              ELSE column_group
    IN  [column_group |-> cg, returns |-> "from_features"]

\* from_column_group up to its return statement: the column group left after the
\* optional tag filter, and which of the two returns is taken.
from_column_group(column_group, tags, tags_to_filter) ==
    LET cg == IF tags # {} THEN get_tagged(column_group, tags, tags_to_filter)
              ELSE column_group
    IN  [column_group |-> cg,
         returns |-> IF cg = {} THEN "None" ELSE "from_features"]

\* TabularLayer.from_column_group(column_group, tags, tags_to_filter, **kwargs)
FromColumnGroupBegin ==
    /\ pc = "idle"
    /\ \E column_group \in ColumnGroups, tags \in TagsArgs,
          tags_to_filter \in TagsToFilterArgs, aggregation \in AggregationArgs :
          cfg' = [schema |-> column_group, column_group |-> column_group, tags |-> tags,
                  tags_to_filter |-> tags_to_filter, aggregation |-> aggregation]
    /\ op' = "from_column_group"
    /\ pc' = "select"
    /\ UNCHANGED <<B0, heap, inputs, outputs, post_op, mi, received, result, inferred>>

\* The tag filter and the test of what it left.
FromColumnGroupSelect ==
    /\ pc = "select"
    /\ LET r == from_column_group(cfg.column_group, cfg.tags, cfg.tags_to_filter)
       IN  /\ cfg' = [cfg EXCEPT !.column_group = r.column_group]
           /\ IF r.returns = "None"
              THEN result' = None /\ pc' = "done"
              ELSE result' = result /\ pc' = "from_features"
    /\ UNCHANGED <<op, B0, heap, inputs, outputs, post_op, mi, received, inferred>>

\* return cls.from_features(column_group.columns, **kwargs): the block is built
\* and composed with the columns.
FromColumnGroupFromFeatures ==
    /\ pc = "from_features"
    /\ result' = from_features({c.name : c \in cfg.column_group}, cfg.aggregation)
    /\ pc' = "done"
    /\ UNCHANGED <<op, cfg, B0, heap, inputs, outputs, post_op, mi, received, inferred>>

-----------------------------------------------------------------------------
(* Shapes: ConcatFeatures and StackFeatures *)

RECURSIVE Product(_)
Product(ds) == IF ds = <<>> THEN 1 ELSE Head(ds) * Product(Tail(ds))

RECURSIVE Sum(_)
Sum(ws) == IF ws = <<>> THEN 0 ELSE Head(ws) + Sum(Tail(ws))

\* A leaf shape is a TensorShape, dims; a nested shape is the tuple of the shapes
\* of a ragged column's values and row lengths, (dims, lens).
isinstance_tuple(i) == i.nested

\* tf.keras.layers.Flatten: (batch, d1, ..., dn) becomes (batch, d1 * ... * dn),
\* and (batch,) becomes (batch, 1).
flatten(dims) == <<Head(dims), Product(Tail(dims))>>

\* tf.concat(values, axis=-1) of 2-D tensors: the leading dimensions must agree.
tf_concat(ts) ==
    IF ts = <<>> THEN ShapeError("ValueError")
    ELSE IF \E i \in 1..Len(ts) : ts[i][1] # ts[1][1] THEN ShapeError("InvalidArgumentError")
    ELSE ShapeOf(<<ts[1][1], Sum([i \in 1..Len(ts) |-> ts[i][2]])>>)

\* tf.stack(values, axis=-1): all shapes must agree; the new axis comes last.
tf_stack(ts) ==
    IF ts = <<>> THEN ShapeError("ValueError")
    ELSE IF \E i \in 1..Len(ts) : ts[i] # ts[1] THEN ShapeError("InvalidArgumentError")
    ELSE ShapeOf(Append(ts[1], Len(ts)))

\* tf.nest.flatten(tf.nest.map_structure(self.flatten, inputs)): the flattened
\* tensors of a bundle in iteration order; a bare tensor is a structure of one.
RECURSIVE FlattenAll(_)
FlattenAll(entries) ==
    IF entries = <<>> THEN <<>>
    ELSE LET i == Head(entries)
         IN  (IF isinstance_tuple(i) THEN <<flatten(i.dims), flatten(i.lens)>>
              ELSE <<flatten(i.dims)>>) \o FlattenAll(Tail(entries))

\* ConcatFeatures.call
ConcatFeatures_call(entries) == tf_concat(FlattenAll(entries))

\* StackFeatures.call
StackFeatures_call(entries) == tf_stack(FlattenAll(entries))

\* [i for i in input_shapes.values() if not isinstance(i, tuple)]
LeafShapes(entries) == SelectSeq(entries, LAMBDA i : ~isinstance_tuple(i))

\* calculate_batch_size_from_input_shapes; 0 stands for the IndexError of [][0].
calculate_batch_size_from_input_shapes(entries) ==
    IF LeafShapes(entries) = <<>> THEN 0 ELSE LeafShapes(entries)[1].dims[1]

\* ConcatFeatures.compute_output_shape. i[1] of a leaf shape is its second
\* dimension, i[1] of a nested shape is the shape of the row lengths, and sum()
\* then adds a shape object to integers: a TypeError where TensorShape has no
\* __radd__ (radd = FALSE), and where it has one the shapes are concatenated and
\* a shape object is returned in the place of the width.
ConcatFeatures_compute_output_shape(entries, radd) ==
    IF LeafShapes(entries) = <<>> THEN ShapeError("IndexError")
    ELSE IF \E i \in 1..Len(entries) : ~isinstance_tuple(entries[i]) /\ Len(entries[i].dims) < 2
         THEN ShapeError("IndexError")
    ELSE IF \E i \in 1..Len(entries) : isinstance_tuple(entries[i])
         THEN IF radd
              THEN ShapeWithShapeInside(<<calculate_batch_size_from_input_shapes(entries)>>)
              ELSE ShapeError("TypeError")
    ELSE ShapeOf(<<calculate_batch_size_from_input_shapes(entries),
                   Sum([i \in 1..Len(entries) |-> entries[i].dims[2]])>>)

\* StackFeatures.compute_output_shape; [-1] of a nested first entry is the shape
\* of its row lengths.
StackFeatures_compute_output_shape(entries) ==
    IF LeafShapes(entries) = <<>> THEN ShapeError("IndexError")
    ELSE IF isinstance_tuple(entries[1])
         THEN ShapeWithShapeInside(<<calculate_batch_size_from_input_shapes(entries),
                                     Len(entries)>>)
    ELSE LET last_dim == entries[1].dims[Len(entries[1].dims)]
         IN  ShapeOf(<<calculate_batch_size_from_input_shapes(entries), Len(entries), last_dim>>)

MaxDim == 3

MaxEntries == 2

BatchSizes == {1, 2}

\* The non-batch dimensions of a tensor: none, one or two of them.
FeatureDims == UNION {[1..r -> 1..MaxDim] : r \in 0..2}

\* The shapes of the tensors a bundle holds.
TensorShapes == {[nested |-> FALSE, dims |-> <<b>> \o f, lens |-> <<>>] :
                    b \in BatchSizes, f \in FeatureDims}

\* The shapes of the ragged columns a bundle holds: n values in all, and one row
\* length for each row of the batch.
RaggedShapes == {[nested |-> TRUE, dims |-> <<n, 1>>, lens |-> <<b, 1>>] :
                    n \in 1..MaxDim, b \in BatchSizes}

\* What an aggregator is applied to: a bundle (its values in iteration order)
\* or a single bare tensor.
AggInputs ==
    {[dict |-> TRUE, entries |-> l] : l \in SeqsUpTo(TensorShapes \cup RaggedShapes, MaxEntries)}
        \cup {[dict |-> FALSE, entries |-> <<t>>] : t \in TensorShapes}

\* An aggregator and the input it is built and called on.
AggBegin ==
    /\ pc = "idle"
    /\ \E agg \in {"concat", "stack"}, i \in AggInputs :
          cfg' = [agg |-> agg, dict |-> i.dict, entries |-> i.entries]
    /\ op' = "Agg"
    /\ pc' = "agg"
    /\ UNCHANGED <<B0, heap, inputs, outputs, post_op, mi, received, result, inferred>>

\* compute_output_shape(input_shapes)
AggInfer ==
    /\ pc = "agg"
    /\ inferred.kind = "none"
    /\ \E radd \in BOOLEAN :
          inferred' = IF ~cfg.dict THEN ShapeError("AttributeError")
                      ELSE IF cfg.agg = "concat"
                      THEN ConcatFeatures_compute_output_shape(cfg.entries, radd)
                      ELSE StackFeatures_compute_output_shape(cfg.entries)
    /\ pc' = IF result.kind = "none" THEN "agg" ELSE "done"
    /\ UNCHANGED <<op, cfg, B0, heap, inputs, outputs, post_op, mi, received, result>>

\* call(inputs)
AggCall ==
    /\ pc = "agg"
    /\ result.kind = "none"
    /\ result' = IF cfg.agg = "concat"
                 THEN ConcatFeatures_call(cfg.entries)
                 ELSE StackFeatures_call(cfg.entries)
    /\ pc' = IF inferred.kind = "none" THEN "agg" ELSE "done"
    /\ UNCHANGED <<op, cfg, B0, heap, inputs, outputs, post_op, mi, received, inferred>>

-----------------------------------------------------------------------------
(* compute_output_shape of TabularLayer and MergeTabular *)

\* One entry of a mapping of shapes; a mapping is the sequence of its entries in
\* insertion order.
KeyedShape(k, e) == [key |-> k, shape |-> e]

\* input_shapes.values()
Values(items) == [i \in 1..Len(items) |-> items[i].shape]

\* A mapping of shapes as a result, next to ShapeOf and ShapeError.
ShapeMapping(items) == [kind |-> "mapping", dims |-> <<>>, err |-> "", items |-> items]

\* FilterFeatures.compute_output_shape, and FilterFeatures.call as seen on shapes.
FilterFeatures_compute_output_shape(items, columns) ==
    SelectSeq(items, LAMBDA it : it.key \in columns)

RECURSIVE ShapeUpdate(_, _)
\* dict.update on mappings kept in insertion order: a key already there keeps
\* its place and takes the new value, a new key goes last.
ShapeUpdate(out, new) ==
    IF new = <<>> THEN out
    ELSE LET it  == Head(new)
             nxt == IF \E i \in 1..Len(out) : out[i].key = it.key
                    THEN [i \in 1..Len(out) |-> IF out[i].key = it.key THEN it ELSE out[i]]
                    ELSE Append(out, it)
         IN  ShapeUpdate(nxt, Tail(new))

\* layer.compute_output_shape(input_shape), and layer(inputs) as seen on shapes,
\* for a block Merge wraps: a FilterFeatures, or a TabularLayer without aggregation.
SubBlockShapes(blk, items) ==
    IF blk.kind = "filter" THEN FilterFeatures_compute_output_shape(items, blk.columns)
    ELSE items

RECURSIVE MergeShapesLoop(_, _, _)
\* for layer in self.to_merge: output_shapes.update(...)
MergeShapesLoop(to_merge, items, out) ==
    IF to_merge = <<>> THEN out
    ELSE MergeShapesLoop(Tail(to_merge), items,
                         ShapeUpdate(out, SubBlockShapes(Head(to_merge), items)))

\* MergeTabular.compute_output_shape: the mapping the loop leaves, returned as it is.
MergeTabular_compute_output_shape(to_merge, items) ==
    ShapeMapping(MergeShapesLoop(to_merge, items, <<>>))

\* TabularLayer.compute_output_shape
TabularLayer_compute_output_shape(aggregation, items, radd) ==
    IF aggregation = "concat" THEN ConcatFeatures_compute_output_shape(Values(items), radd)
    ELSE IF aggregation = "stack" THEN StackFeatures_compute_output_shape(Values(items))
    ELSE ShapeMapping(items)

\* block.compute_output_shape(input_shapes): MergeTabular overrides the method
\* of TabularLayer.
compute_output_shape(blk, items, radd) ==
    IF blk.wrapped = "merge" THEN MergeTabular_compute_output_shape(blk.to_merge, items)
    ELSE TabularLayer_compute_output_shape(blk.aggregation, items, radd)

\* The shape of what block(inputs, filter_columns=filter_columns) returns on
\* inputs of the shapes items: TabularLayer.__call__ with the other arguments
\* left at their defaults.
ShapeOfCall(blk, items, filter_columns) ==
    LET post    == ResolvePostOp(blk.aggregation, FALSE, FALSE)
        pre     == EffectivePre(NoBlock, filter_columns)
        ins     == IF pre.kind = "filter"
                   THEN FilterFeatures_compute_output_shape(items, pre.columns)
                   ELSE items
        outs    == IF blk.wrapped = "merge" THEN MergeShapesLoop(blk.to_merge, ins, <<>>)
                   ELSE ins
    IN  IF post = "concat" THEN ConcatFeatures_call(Values(outs))
        ELSE IF post = "stack" THEN StackFeatures_call(Values(outs))
        ELSE ShapeMapping(outs)

\* The shapes of plain two-dimensional tensors.
PlainShapes == {[nested |-> FALSE, dims |-> <<b, w>>, lens |-> <<>>] :
                   b \in BatchSizes, w \in 1..MaxDim}

\* The keys of a bundle in the orders they can be inserted in.
KeySeqs == {<<>>, <<"x">>, <<"y">>, <<"x", "y">>, <<"y", "x">>}

\* The mappings of shapes a block is given.
ShapeBundles ==
    UNION {{[i \in 1..Len(ks) |-> KeyedShape(ks[i], f[i])] : f \in [1..Len(ks) -> PlainShapes]} :
              ks \in KeySeqs}

\* The blocks a Merge wraps here.
ShapeSubBlocks == {FilterBlock({"x"}, FALSE), FilterBlock({"y"}, FALSE), IdentityBlock}

\* The blocks whose shape inference is compared with their call.
ShapedBlocks ==
    {[wrapped |-> "identity", to_merge |-> <<>>, aggregation |-> set_aggregation(a)] :
        a \in AggregationArgs}
      \cup {[wrapped |-> "merge", to_merge |-> tm, aggregation |-> set_aggregation(a)] :
               tm \in SeqsUpTo(ShapeSubBlocks, MaxBlocks), a \in AggregationArgs}

\* A block, the shapes of its inputs and the filter_columns it is called with.
BlockShapeBegin ==
    /\ pc = "idle"
    /\ \E blk \in ShapedBlocks, items \in ShapeBundles, filter_columns \in FilterColumnsArgs :
          cfg' = [wrapped |-> blk.wrapped, to_merge |-> blk.to_merge,
                  aggregation |-> blk.aggregation, filter_columns |-> filter_columns,
                  input_shapes |-> items]
    /\ op' = "BlockShape"
    /\ pc' = "shape"
    /\ UNCHANGED <<B0, heap, inputs, outputs, post_op, mi, received, result, inferred>>

\* block.compute_output_shape(input_shapes)
BlockShapeInfer ==
    /\ pc = "shape"
    /\ inferred.kind = "none"
    /\ \E radd \in BOOLEAN :
          inferred' = compute_output_shape(cfg, cfg.input_shapes, radd)
    /\ pc' = IF result.kind = "none" THEN "shape" ELSE "done"
    /\ UNCHANGED <<op, cfg, B0, heap, inputs, outputs, post_op, mi, received, result>>

\* block(inputs, filter_columns=filter_columns)
BlockShapeCall ==
    /\ pc = "shape"
    /\ result.kind = "none"
    /\ result' = ShapeOfCall(cfg, cfg.input_shapes, cfg.filter_columns)
    /\ pc' = IF inferred.kind = "none" THEN "shape" ELSE "done"
    /\ UNCHANGED <<op, cfg, B0, heap, inputs, outputs, post_op, mi, received, inferred>>

\* The call has returned; the next one starts from scratch.
Return ==
    /\ pc = "done"
    /\ op' = "idle"
    /\ pc' = "idle"
    /\ cfg' = [none |-> TRUE]
    /\ B0' = EmptyBundle
    /\ heap' = NewHeap(EmptyBundle)
    /\ inputs' = NoValue
    /\ outputs' = NoValue
    /\ post_op' = "none"
    /\ mi' = 1
    /\ received' = <<>>
    /\ result' = NoValue
    /\ inferred' = NoShape

-----------------------------------------------------------------------------
(* Properties *)

FilterDone == op = "Filter" /\ pc = "done" /\ isinstance_dict(inputs)

TabularDone == op = "Tabular" /\ pc = "done"

\* b holds exactly the entries of a whose key is in columns.
ExactlyTheEntries(b, a, columns) ==
    /\ DOMAIN b = {k \in DOMAIN a : k \in columns}
    /\ \A k \in DOMAIN b : b[k] = a[k]

\* C1: Filter(C) with pop=False returns exactly the entries of B whose key is
\* in C, and B holds after the call what it held before it.
C1_FilterSelectsAndKeepsInput ==
    (FilterDone /\ ~cfg.pop) =>
        /\ result.kind = "bundle"
        /\ ExactlyTheEntries(heap[result.ref], B0, cfg.columns)
        /\ heap.caller = B0

\* A non-popping filter has selected some entries of B and left others out.
C1_Witness ==
    /\ FilterDone /\ ~cfg.pop
    /\ DOMAIN B0 \cap cfg.columns # {}
    /\ DOMAIN B0 \ cfg.columns # {}

\* C2: Filter(C, pop=True) returns the entries of B whose key is in C and
\* removes those keys from the caller's mapping B itself: afterwards no key of
\* B is in C, and the other entries of B are as they were.
C2_FilterPopRemovesSelected ==
    (FilterDone /\ cfg.pop) =>
        /\ result.kind = "bundle"
        /\ ExactlyTheEntries(heap[result.ref], B0, cfg.columns)
        /\ DOMAIN heap.caller \cap cfg.columns = {}
        /\ ExactlyTheEntries(heap.caller, B0, Keys \ cfg.columns)

\* A popping filter has removed some entries of B and left others in it.
C2_Witness ==
    /\ FilterDone /\ cfg.pop
    /\ DOMAIN B0 \cap cfg.columns # {}
    /\ DOMAIN heap.caller # {}

\* The last line of the log that produced key k.
LastProducer(log, k) ==
    CHOOSE i \in 1..Len(log) :
        /\ k \in DOMAIN log[i].ret
        /\ \A j \in (i + 1)..Len(log) : k \notin DOMAIN log[j].ret

\* b is the key-union of the bundles the log's blocks produced, each key with
\* the value of the last block that produced it.
KeyUnionLastWins(log, b) ==
    /\ DOMAIN b = UNION {DOMAIN log[i].ret : i \in 1..Len(log)}
    /\ \A k \in DOMAIN b : b[k] = log[LastProducer(log, k)].ret[k]

\* C3: Merge(b1, ..., bn) returns the key-union of the bundles b1..bn
\* produced, a key produced more than once keeping the value of the block that
\* comes last; Merge(blockA, blockB) gives {x: B's, y: B's} and
\* Merge(blockB, blockA) gives {x: A's, y: B's}.
C3_MergeLastWins ==
    (TabularDone /\ cfg.wrapped = "merge" /\ result.kind = "bundle") =>
        /\ Len(received) = Len(cfg.to_merge)
        /\ \A i \in 1..Len(received) : received[i].block = cfg.to_merge[i]
        /\ KeyUnionLastWins(received, heap[result.ref])
        /\ cfg.to_merge = <<blockA, blockB>> =>
               heap[result.ref] = ("x" :> <<"B", "x">>) @@ ("y" :> <<"B", "y">>)
        /\ cfg.to_merge = <<blockB, blockA>> =>
               heap[result.ref] = ("x" :> <<"A", "x">>) @@ ("y" :> <<"B", "y">>)

\* Merge(blockA, blockB) has returned a bundle.
C3_Witness ==
    /\ TabularDone /\ cfg.wrapped = "merge" /\ result.kind = "bundle"
    /\ cfg.to_merge = <<blockA, blockB>>

\* The aggregation a returned value went through ("none" when it went through none).
AggregatedBy(v) == IF v.kind = "agg" THEN v.by ELSE "none"

\* The call is past the resolution of post_op.
Resolved == op = "Tabular" /\ pc \notin {"idle", "resolve"}

Returned == TabularDone /\ result.kind # "fail"

\* C4 as claimed: concat_outputs wins over stack_outputs, which wins over the
\* construction-time aggregation, which wins over no aggregation.
C4_ConcatWinsOverStack ==
    LET claimed == IF cfg.concat_outputs THEN "concat"
                   ELSE IF cfg.stack_outputs THEN "stack"
                   ELSE cfg.aggregation
    IN  /\ Resolved => post_op = claimed
        /\ Returned => AggregatedBy(result) = claimed

\* C4 as amended: stack_outputs wins over concat_outputs, which wins over the
\* construction-time aggregation, which wins over no aggregation; with both flags
\* set the outputs are aggregated by Stack.
C4_StackWinsOverConcat ==
    LET actual == IF cfg.stack_outputs THEN "stack"
                  ELSE IF cfg.concat_outputs THEN "concat"
                  ELSE cfg.aggregation
    IN  /\ Resolved => post_op = actual
        /\ Returned => AggregatedBy(result) = actual

\* A call with both flags set, on a block built with another aggregation, has returned.
C4_Witness ==
    /\ Returned
    /\ cfg.concat_outputs /\ cfg.stack_outputs /\ cfg.aggregation = "concat"
    /\ AggregatedBy(result) = "stack"

\* The pre-filter of the call in progress.
PreOfCall == EffectivePre(cfg.pre, cfg.filter_columns)

\* No filter of the call in progress is configured with pop=True.
PopFree ==
    /\ ~PreOfCall.pop
    /\ \A i \in 1..Len(cfg.to_merge) : ~cfg.to_merge[i].pop
    /\ \A i \in 1..Len(MergeWithList(cfg.merge_with)) : ~MergeWithList(cfg.merge_with)[i].pop

\* The filtered inputs: what applying pre / filter_columns to the caller's bundle gives.
FilteredInputs == IF PreOfCall.kind = "filter" THEN Restrict(B0, PreOfCall.columns) ELSE B0

\* What a non-popping block produces from the bundle f.
Produces(blk, f) ==
    CASE blk.kind \in {"const", "value"} -> blk.out
      [] blk.kind = "filter" -> Restrict(f, blk.columns)
      [] OTHER -> f

RECURSIVE UnionInOrder(_, _, _)
\* acc overwritten, key by key, by what each block in turn produces from f.
UnionInOrder(blocks, f, acc) ==
    IF blocks = <<>> THEN acc
    ELSE UnionInOrder(Tail(blocks), f, Update(acc, Produces(Head(blocks), f)))

\* The bundle the call returned, or the one it aggregated.
ResultContent == IF result.kind = "agg" THEN result.of ELSE heap[result.ref]

\* C5: every merge_with block is invoked, in list order and after the wrapped
\* transformation, against the filtered inputs (the bundle the wrapped
\* transformation received); each result is unioned into outputs by
\* key-overwrite, the last block winning, and aggregation comes after all merges.
\* Stated for calls without popping filters.
C5_MergeWithSeesFilteredInputs ==
    (op = "Tabular" /\ isinstance_dict(inputs) /\ PopFree) =>
        LET n  == IF cfg.wrapped = "merge" THEN Len(cfg.to_merge) ELSE 0
            mw == MergeWithList(cfg.merge_with)
            wrappedOut == IF cfg.wrapped = "merge"
                          THEN UnionInOrder(cfg.to_merge, FilteredInputs, EmptyBundle)
                          ELSE FilteredInputs
        IN  /\ pc \in {"resolve", "pre", "call"} => received = <<>>
            /\ pc = "merge" => Len(received) = n + mi - 1
            /\ pc # "done" => result.kind = "none"
            /\ \A i \in 1..(Len(received) - n) :
                   /\ received[n + i].block = mw[i]
                   /\ callable(mw[i]) => received[n + i].given = FilteredInputs
            /\ Returned =>
                   /\ Len(received) = n + Len(mw)
                   /\ ResultContent = UnionInOrder(mw, FilteredInputs, wrappedOut)

\* C6: but for a Filter configured with pop=True, no call changes the bundle the
\* caller passed in: it holds throughout what it held when it was passed in.
C6_CallerBundleUntouched ==
    (op = "Tabular" /\ PopFree) => heap.caller = B0

\* All entries have the same leading dimension.
SameBatch(entries) == \A i \in 1..Len(entries) : entries[i].dims[1] = entries[1].dims[1]

\* The flattened feature width of an entry: the product of its non-batch dimensions.
Width(entry) == Product(Tail(entry.dims))

\* An aggregator on a bundle of plain tensors of one batch size.
AggOn(agg) ==
    /\ op = "Agg" /\ cfg.agg = agg /\ cfg.dict /\ cfg.entries # <<>>
    /\ LeafShapes(cfg.entries) = cfg.entries
    /\ SameBatch(cfg.entries)

\* C7: Concat's shape inference gives (batch_size, S), S the sum of the
\* entries' flattened feature widths; (batch, 2, 3) contributes 6.
C7_ConcatInfersSumOfWidths ==
    (AggOn("concat") /\ inferred.kind # "none") =>
        inferred = ShapeOf(<<cfg.entries[1].dims[1],
                             Sum([i \in 1..Len(cfg.entries) |-> Width(cfg.entries[i])])>>)

\* C8: Stack of n entries of one flattened width w gives a tensor of shape
\* (batch_size, n, w), and shape inference reports the same; entries of unequal
\* width give a shape error.
C8_StackShape ==
    (AggOn("stack") /\ result.kind # "none") =>
        IF \A i \in 1..Len(cfg.entries) : Width(cfg.entries[i]) = Width(cfg.entries[1])
        THEN /\ result = ShapeOf(<<cfg.entries[1].dims[1], Len(cfg.entries), Width(cfg.entries[1])>>)
             /\ inferred.kind # "none" => inferred = result
        ELSE result.kind = "fail"

\* C9: AsTabular(name) of a single tensor T returns {name: T}; of a bundle it
\* fails and returns no bundle.
C9_AsTabularRejectsBundle ==
    (op = "AsTabular" /\ pc = "done") =>
        IF isinstance_dict(inputs)
        THEN result.kind = "fail"
        ELSE result = [kind |-> "named", name |-> cfg.output_name, value |-> BareTensor]

\* The operation that has returned was called on a single bare tensor.
OnBareTensor ==
    /\ pc = "done"
    /\ \/ op = "Filter" /\ ~isinstance_dict(inputs)
       \/ op = "Agg" /\ ~cfg.dict
       \/ op = "Tabular" /\ cfg.wrapped = "merge" /\ ~isinstance_dict(inputs)

\* C10: Filter, Merge, Concat and Stack fail on a single bare tensor: no result,
\* and no wrapped block or tensor operation applied.
C10_BareTensorRejected ==
    OnBareTensor => (result.kind = "fail" /\ received = <<>>)

\* The filter selected one column of a bundle that holds it, and AsTabular has
\* returned.
OneColumnNamed ==
    /\ op = "FilterAsTabular" /\ pc = "done"
    /\ isinstance_dict(inputs)
    /\ cfg.columns = {"x"}
    /\ "x" \in DOMAIN B0

\* C11: {item_id: t1, item_category: t2} through Filter({item_id}) and then
\* AsTabular("item") gives exactly {item: t1}: the one key maps to the item_id
\* tensor itself, and item_category is nowhere in the result.
C11_FilterThenAsTabularNamesTheTensor ==
    OneColumnNamed =>
        /\ result.kind = "named"
        /\ result.name = cfg.output_name
        /\ result.value.kind = "tensor"

\* The column group left after the optional tag filter.
ColumnsLeft == cfg.column_group

\* C12: from_column_group returns None, without raising and without building or
\* composing any block, whenever the column set left after the optional tag
\* filter is empty; whenever that set is not empty, a block is returned.
C12_EmptySelectionGivesNone ==
    op = "from_column_group" =>
        /\ pc = "from_features" => (ColumnsLeft # {} /\ result.kind = "none")
        /\ pc = "done" =>
              IF ColumnsLeft = {}
              THEN result = None
              ELSE /\ result.kind = "block"
                   /\ result.layers = <<{c.name : c \in ColumnsLeft},
                                        NewTabularLayer(cfg.aggregation)>>

\* A schema with columns, none of which passes the tag filter: None is returned.
C12_Witness ==
    /\ op = "from_column_group" /\ pc = "done"
    /\ cfg.schema # {} /\ cfg.tags # {}
    /\ ColumnsLeft = {}
    /\ result = None

\* Shape inference has run on a bundle that holds a leaf shape, and every leaf
\* shape it holds has a feature dimension.
InferredWithLeaf ==
    /\ op = "Agg" /\ cfg.dict /\ inferred.kind # "none"
    /\ LeafShapes(cfg.entries) # <<>>
    /\ \A i \in 1..Len(cfg.entries) :
           ~isinstance_tuple(cfg.entries[i]) => Len(cfg.entries[i].dims) >= 2

SameMapping(a, b) == {a[i] : i \in 1..Len(a)} = {b[i] : i \in 1..Len(b)}

\* C14: for a TabularLayer and for a Merge block alike, compute_output_shape of
\* the input shapes is the shape of what the call returns on inputs of those
\* shapes, through the same pre-filter, wrapped block and aggregator: the
\* mapping of shapes when no aggregation applies, and with an aggregation
\* configured (on a Merge block too) the shape of the single aggregated tensor,
\* not a mapping by key. Stated for calls that return.
C14_InferredShapeIsShapeOfCall ==
    (op = "BlockShape" /\ pc = "done" /\ result.kind # "fail") =>
        /\ inferred.kind = result.kind
        /\ cfg.aggregation # "none" => inferred.kind = "shape"
        /\ result.kind = "mapping" => SameMapping(inferred.items, result.items)
        /\ result.kind = "shape" => (inferred.dims = result.dims /\ inferred.err = result.err)

Next ==
    \/ FilterCall
    \/ AsTabularCall
    \/ FilterAsTabularCall
    \/ AggBegin
    \/ AggInfer
    \/ AggCall
    \/ CallBegin
    \/ ResolveStep
    \/ PreStep
    \/ CallStep
    \/ MergeStep
    \/ PostStep
    \/ FromColumnGroupBegin
    \/ FromColumnGroupSelect
    \/ FromColumnGroupFromFeatures
    \/ BlockShapeBegin
    \/ BlockShapeInfer
    \/ BlockShapeCall
    \/ Return

Spec == Init /\ [][Next]_vars

====
